---- MODULE Spec2Model ----
(***************************************************************************)
(* Model of assets/icons/convert_icons.py and convert_start_bmp.py:        *)
(* the icon-container parser (parse_ico), the 32-bit icon decoder           *)
(* (bmp_to_rgba), the driver loop of convert_icons.main, and the 4-bit      *)
(* bitmap decoder (read_bmp_4bit) with its driver.                          *)
(*                                                                         *)
(* Files are byte strings.  A file is kept in the state by the parameters   *)
(* that generate it; FileLen and FileByte give its length and its bytes,    *)
(* and read() returns the bytes Python's f.read(n) returns at a position.   *)
(* Exceptions are modelled by the variable exc and the control point        *)
(* "raise".  u32 fields are drawn below 2^31 (TLC's integers are 32 bit).   *)
(***************************************************************************)
EXTENDS Integers, Sequences, FiniteSets, TLC

VARIABLES
    prog,         \* which script runs: "convert_icons" or "convert_start_bmp"
    pc,           \* control point
    file,         \* the open file f (its generating parameters)
    pos,          \* f's cursor: bytes from the start of the file
    exc,          \* the exception raised, "" when none
    stdout,       \* what has been printed
    icon_idx,     \* convert_icons.main: position in the icons dict (1-based)
    count,        \* parse_ico: ICONDIR count
    i,            \* parse_ico: directory entries read so far
    best_entry,   \* parse_ico: <<>> for None, else <<image_offset, bit_count, bytes_in_res>>
    image_data,   \* parse_ico's first result
    bit_count,    \* parse_ico's second result; read_bmp_4bit: the DIB bit count
    pixels,       \* the RGBA list being built or returned
    rust_code,    \* convert_icons.main: the generated text, one item per icon
    output_file,  \* what has been written to the output file, <<>> before
    pixel_offset, \* read_bmp_4bit
    dib_size,     \* read_bmp_4bit
    width,        \* read_bmp_4bit
    height,       \* read_bmp_4bit
    palette,      \* read_bmp_4bit: sequence of <<r, g, b, a>>
    row_size,     \* read_bmp_4bit
    y             \* read_bmp_4bit: the row loop's variable

vars == <<prog, pc, file, pos, exc, stdout, icon_idx, count, i, best_entry,
          image_data, bit_count, pixels, rust_code, output_file,
          pixel_offset, dib_size, width, height, palette, row_size, y>>

icoVars == <<icon_idx, count, i, best_entry, image_data, rust_code>>
bmpVars == <<pixel_offset, dib_size, width, height, palette, row_size, y>>

Min(a, b) == IF a < b THEN a ELSE b
Max(a, b) == IF a > b THEN a ELSE b
Abs(v) == IF v < 0 THEN -v ELSE v

(***************************************************************************)
(* Bounds of the model.                                                    *)
(***************************************************************************)
MaxEntries == 3   \* longest icon directory drawn
MaxWidth == 9     \* widest standalone bitmap drawn
MaxHeight == 3    \* tallest standalone bitmap drawn

(***************************************************************************)
(* struct: little-endian encoding (used to lay files out) and decoding.    *)
(***************************************************************************)
\* n little-endian bytes of v; a negative v is stored in two's complement
pack(n, v) ==
    [k \in 1..n |->
        IF k = 4 /\ v < 0
        THEN 256 + (v \div 16777216)
        ELSE (v \div (256 ^ (k - 1))) % 256]

\* struct.unpack('<B' | '<H' | '<I', b)[0]
unpack_unsigned(b) ==
    LET RECURSIVE val(_)
        val(k) == IF k > Len(b) THEN 0 ELSE b[k] + 256 * val(k + 1)
    IN val(1)

\* struct.unpack('<i', b)[0]
unpack_signed(b) ==
    b[1] + 256 * b[2] + 65536 * b[3]
    + 16777216 * (IF b[4] >= 128 THEN b[4] - 256 ELSE b[4])

(***************************************************************************)
(* Icon containers on disk.  An .ico file is generated from                *)
(*   reserved, type : the ICONDIR tag fields                               *)
(*   dir            : the directory, a sequence of <<width, height,        *)
(*                    bitCount>> with width and height as stored bytes      *)
(*   dibw, dibh     : width and height declared by every embedded DIB      *)
(*   seed           : selects the pixel bytes                              *)
(*   len            : the file's length (a shorter len truncates it)       *)
(* Layout: 6-byte ICONDIR, 16 bytes per entry, then one region per entry:  *)
(* a 40-byte BITMAPINFOHEADER, 32*32*4 colour bytes and a 128-byte mask.   *)
(***************************************************************************)
RegionLen == 40 + 32 * 32 * 4 + 128

RegionOffset(n, e) == 6 + 16 * n + (e - 1) * RegionLen

IcoFullLen(n) == 6 + 16 * n + n * RegionLen

\* colour byte d (0-based) of region e: differs by row, column and channel
PixByte(seed, e, d) ==
    (seed + 16 * e + 7 * (d \div 128) + 3 * ((d % 128) \div 4) + 64 * (d % 4)) % 256

\* byte j (0-based) of the region of entry e
RegionByte(f, e, j) ==
    IF j >= 40
    THEN IF j < 40 + 4096 THEN PixByte(f.seed, e, j - 40) ELSE 0
    ELSE IF j < 16
    THEN (pack(4, 40) \o pack(4, f.dibw) \o pack(4, f.dibh)
            \o pack(2, 1) \o pack(2, f.dir[e][3]))[j + 1]
    ELSE 0

\* byte j (0-based) of directory entry e of a directory of n entries
EntryByte(f, n, e, j) ==
    (<<f.dir[e][1], f.dir[e][2], 0, 0>> \o pack(2, 1) \o pack(2, f.dir[e][3])
        \o pack(4, RegionLen) \o pack(4, RegionOffset(n, e)))[j + 1]

IcoByte(f, k) ==
    LET n == Len(f.dir)
    IN  IF k >= 6 + 16 * n
        THEN RegionByte(f, ((k - 6 - 16 * n) \div RegionLen) + 1, (k - 6 - 16 * n) % RegionLen)
        ELSE IF k >= 6
        THEN EntryByte(f, n, ((k - 6) \div 16) + 1, (k - 6) % 16)
        ELSE (pack(2, f.reserved) \o pack(2, f.type) \o pack(2, n))[k + 1]

(***************************************************************************)
(* Standalone bitmaps on disk.  A .bmp file is generated from              *)
(*   magic        : its first two bytes                                    *)
(*   pixel_offset : the file header's pixel-data offset                    *)
(*   dib_size     : the DIB header's size field                            *)
(*   width, height, bit_count : the DIB header's fields                    *)
(*   pal          : selects the 16 palette entries                         *)
(*   seed         : selects the pixel bytes                                *)
(*   len          : the file's length (a shorter len truncates it)         *)
(* Layout: 14-byte file header, the DIB header, 16 palette entries of      *)
(* (blue, green, red, reserved), a gap up to pixel_offset, then the rows.  *)
(***************************************************************************)
Levels == <<0, 49, 50, 200, 201, 255>>

\* channel c (0 blue, 1 green, 2 red, 3 reserved) of entry k (0..15) of palette pal
PalByte(pal, k, c) ==
    LET t == (16 * pal + k) % 216
    IN  CASE c = 0 -> Levels[(t % 6) + 1]
          [] c = 1 -> Levels[((t \div 6) % 6) + 1]
          [] c = 2 -> Levels[(t \div 36) + 1]
          [] c = 3 -> k

\* bytes a stored row of a 4-bit bitmap occupies on disk
DiskStride(w) == ((Max(w, 0) * 4 + 31) \div 32) * 4

BmpFullLen(f) == f.pixel_offset + Abs(f.height) * DiskStride(f.width)

BmpByte(f, k) ==
    IF k < 14
    THEN (f.magic \o pack(4, BmpFullLen(f)) \o <<0, 0, 0, 0>> \o pack(4, f.pixel_offset))[k + 1]
    ELSE IF k < 14 + f.dib_size
    THEN IF k < 14 + 16
         THEN (pack(4, f.dib_size) \o pack(4, f.width) \o pack(4, f.height)
                 \o pack(2, 1) \o pack(2, f.bit_count))[k - 14 + 1]
         ELSE 0
    ELSE IF k < 14 + f.dib_size + 64
    THEN PalByte(f.pal, (k - 14 - f.dib_size) \div 4, (k - 14 - f.dib_size) % 4)
    ELSE IF k < f.pixel_offset
    THEN 170
    ELSE LET r == (k - f.pixel_offset) \div DiskStride(f.width)
             j == (k - f.pixel_offset) % DiskStride(f.width)
         IN  IF 2 * j < f.width
             THEN (f.seed + 83 * r + 37 * j) % 256
             ELSE 255 - r

(***************************************************************************)
(* File objects.                                                           *)
(***************************************************************************)
FileLen(f) == f.len

FileByte(f, k) == IF f.kind = "ico" THEN IcoByte(f, k) ELSE BmpByte(f, k)

\* f.read(n) with the cursor at p: the bytes that are there, at most n of
\* them (all of them when n is negative)
read(f, p, n) ==
    LET avail == Max(0, FileLen(f) - p)
        m == IF n < 0 THEN avail ELSE Min(n, avail)
    IN  [k \in 1..m |-> FileByte(f, p + k - 1)]

\* the same run decoding whatever bytes are there (int.from_bytes in place of
\* struct.unpack): a short read is not an error
ReadFields_lenient(f, p, sizes) ==
    LET RECURSIVE go(_, _, _)
        go(k, q, acc) ==
            IF k > Len(sizes)
            THEN [ok |-> TRUE, vals |-> acc, pos |-> q]
            ELSE LET b == read(f, q, sizes[k])
                 IN  go(k + 1, q + Len(b),
                        Append(acc, [j \in 1..sizes[k] |-> IF j <= Len(b) THEN b[j] ELSE 0]))
    IN  go(1, p, <<>>)

\* A run of struct.unpack(fmt, f.read(size)) calls from cursor p, one per
\* element of sizes.  struct.unpack raises struct.error when it is handed
\* fewer bytes than its format needs; the run stops at the first that does.
ReadFields(f, p, sizes) ==
    LET RECURSIVE go(_, _, _)
        go(k, q, acc) ==
            IF k > Len(sizes)
            THEN [ok |-> TRUE, vals |-> acc, pos |-> q]
            ELSE LET b == read(f, q, sizes[k])
                 IN  IF Len(b) # sizes[k]
                     THEN [ok |-> FALSE, vals |-> acc, pos |-> q + Len(b)]
                     ELSE go(k + 1, q + Len(b), Append(acc, b))
    IN  go(1, p, <<>>)

(***************************************************************************)
(* convert_icons.parse_ico                                                 *)
(***************************************************************************)
StructError == "struct.error"
NotAnIco == "ValueError: Not a valid ICO file"
No32x32 == "ValueError: No 32x32 image found"
Not32x32 == "ValueError: Expected 32x32"
IndexError == "IndexError: index out of range"

\* line 19 with "and" for "or"
HeaderInvalid_both(reserved, type_field) == reserved # 0 /\ type_field # 1

\* line 19
HeaderInvalid(reserved, type_field) == reserved # 0 \/ type_field # 1

\* lines 35-38: a stored 0 means 256
Normalised(v) == IF v = 0 THEN 256 ELSE v

\* line 41
Is32x32(w, h) == w = 32 /\ h = 32

\* line 42 with >= for >: a later entry of equal depth replaces the kept one
Better_or_equal(bc, best) == best = <<>> \/ bc >= best[2]

\* line 42
Better(bc, best) == best = <<>> \/ bc > best[2]

Raise(e) == /\ exc' = e
            /\ pc' = "raise"

\* lines 15-20: the ICONDIR header
ReadHeader ==
    /\ pc = "parse_ico"
    /\ \E r \in {ReadFields(file, pos, <<2, 2, 2>>)} :
           /\ pos' = r.pos
           /\ IF ~r.ok
              THEN Raise(StructError) /\ UNCHANGED <<count, i, best_entry>>
              ELSE IF HeaderInvalid(unpack_unsigned(r.vals[1]), unpack_unsigned(r.vals[2]))
              THEN Raise(NotAnIco) /\ UNCHANGED <<count, i, best_entry>>
              ELSE /\ count' = unpack_unsigned(r.vals[3])
                   /\ i' = 0
                   /\ best_entry' = <<>>
                   /\ pc' = "for_entry"
                   /\ UNCHANGED exc
    /\ UNCHANGED <<prog, file, stdout, icon_idx, image_data, bit_count, pixels,
                   rust_code, output_file, bmpVars>>

\* lines 24-43: one iteration of the directory loop
ReadEntry ==
    /\ pc = "for_entry"
    /\ i < count
    /\ \E r \in {ReadFields(file, pos, <<1, 1, 1, 1, 2, 2, 4, 4>>)} :
           /\ pos' = r.pos
           /\ IF ~r.ok
              THEN Raise(StructError) /\ UNCHANGED <<i, best_entry>>
              ELSE LET w == Normalised(unpack_unsigned(r.vals[1]))
                       h == Normalised(unpack_unsigned(r.vals[2]))
                       bc == unpack_unsigned(r.vals[6])
                       bytes_in_res == unpack_unsigned(r.vals[7])
                       image_offset == unpack_unsigned(r.vals[8])
                   IN  /\ best_entry' =
                             IF Is32x32(w, h) /\ Better(bc, best_entry)
                             THEN <<image_offset, bc, bytes_in_res>>
                             ELSE best_entry
                       /\ i' = i + 1
                       /\ UNCHANGED <<pc, exc>>
    /\ UNCHANGED <<prog, file, stdout, icon_idx, count, image_data, bit_count,
                   pixels, rust_code, output_file, bmpVars>>

\* lines 45-53: after the loop
ReadImage ==
    /\ pc = "for_entry"
    /\ i = count
    /\ IF best_entry = <<>>
       THEN Raise(No32x32) /\ UNCHANGED <<pos, image_data, bit_count>>
       ELSE \E data \in {read(file, best_entry[1], best_entry[3])} :
                /\ image_data' = data
                /\ bit_count' = best_entry[2]
                /\ pos' = best_entry[1] + Len(data)
                /\ pc' = "bmp_to_rgba"
                /\ UNCHANGED exc
    /\ UNCHANGED <<prog, file, stdout, icon_idx, count, i, best_entry, pixels,
                   rust_code, output_file, bmpVars>>

(***************************************************************************)
(* convert_icons.bmp_to_rgba                                               *)
(***************************************************************************)
\* range(start, -1, -1): start, start-1, ..., 0
range_down(start) == [n \in 1..Max(0, start + 1) |-> start + 1 - n]

\* line 77, with pixel_offset = 40 (line 71)
Offset32(yy, x) == 40 + (yy * 32 + x) * 4

\* lines 78-82: channel c (0..3) appended for the source pixel at offset,
\* stored blue, green, red, alpha and appended red, green, blue, alpha
Channel32(d, offset, c) ==
    CASE c = 0 -> d[offset + 2 + 1]
      [] c = 1 -> d[offset + 1 + 1]
      [] c = 2 -> d[offset + 1]
      [] c = 3 -> d[offset + 3 + 1]

\* line 75 as range(32): the rows in stored order
Rows32_ascending == [n \in 1..32 |-> n - 1]

\* line 75: the source rows in the order the loop visits them
Rows32 == range_down(31)

\* line 91
Placeholder == <<128, 128, 192, 255>>

\* The call bmp_to_rgba(d, bc): the exception it raises ("" when none), the
\* bit count it warns about (-1 when it does not warn) and the list returned.
bmp_to_rgba(d, bc) ==
    IF Len(d) < 12
    THEN [exc |-> StructError, warn |-> -1, pixels |-> <<>>]
    ELSE LET w == unpack_signed(SubSeq(d, 5, 8))
             h == unpack_signed(SubSeq(d, 9, 12))
             actual_height == Abs(h) \div 2
         IN  IF w # 32 \/ actual_height # 32
             THEN [exc |-> Not32x32, warn |-> -1, pixels |-> <<>>]
             ELSE IF bc = 32
             THEN IF \E n \in 1..Len(Rows32), x \in 0..31 :
                        Offset32(Rows32[n], x) + 3 >= Len(d)
                  THEN [exc |-> IndexError, warn |-> -1, pixels |-> <<>>]
                  ELSE [exc |-> "", warn |-> -1,
                        pixels |->
                          [k \in 1..(Len(Rows32) * 32 * 4) |->
                             LET p == (k - 1) \div 4
                             IN  Channel32(d, Offset32(Rows32[(p \div 32) + 1], p % 32),
                                           (k - 1) % 4)]]
             ELSE [exc |-> "", warn |-> bc,
                   pixels |-> [k \in 1..(32 * 32 * 4) |-> Placeholder[((k - 1) % 4) + 1]]]

\* line 129 (the call) with lines 55-92
Decode ==
    /\ pc = "bmp_to_rgba"
    /\ \E r \in {bmp_to_rgba(image_data, bit_count)} :
           /\ pixels' = r.pixels
           /\ stdout' = IF r.warn >= 0 THEN Append(stdout, <<"Warning", r.warn>>) ELSE stdout
           /\ exc' = r.exc
           /\ pc' = IF r.exc = "" THEN "generate" ELSE "raise"
    /\ UNCHANGED <<prog, file, pos, icon_idx, count, i, best_entry, image_data,
                   bit_count, rust_code, output_file, bmpVars>>

(***************************************************************************)
(* convert_icons.main                                                      *)
(***************************************************************************)
\* lines 114-119
icons == <<"MY_COMPUTER", "MY_DOCUMENTS", "RECYCLE_BIN", "NETWORK_PLACES">>

\* lines 96-108: the text generated for one icon: its name, the declared
\* array length and the array's bytes
generate_rust_code(icon_name, px) == <<icon_name, Len(px), px>>

\* line 121
RustHeader == <<"// Auto-generated desktop icon data from Windows XP .ico files">>

NoFile == [kind |-> "none", len |-> 0]

(***************************************************************************)
(* The .ico files drawn.                                                   *)
(***************************************************************************)
IcoFile(dir) ==
    [kind |-> "ico", reserved |-> 0, type |-> 1, dir |-> dir, dibw |-> 32, dibh |-> 64,
     seed |-> 0, len |-> IcoFullLen(Len(dir))]

\* directory entries: <<width byte, height byte, bitCount>>
DescKinds == {<<32, 32, 8>>, <<32, 32, 32>>, <<32, 0, 32>>, <<16, 32, 32>>}

Dirs == UNION {[1..n -> DescKinds] : n \in 0..MaxEntries}

DirFiles == {IcoFile(d) : d \in Dirs}

One32 == <<<<32, 32, 32>>>>

HeaderFiles ==
    {[IcoFile(One32) EXCEPT !.reserved = r, !.type = t, !.len = l] :
        r \in {0, 1, 256}, t \in {0, 1, 2}, l \in (0..6) \cup {IcoFullLen(1)}}

Depths == {0, 1, 4, 8, 16, 24, 32}

DibDims == {<<32, 64>>, <<32, -64>>, <<32, 65>>, <<32, -65>>, <<32, 32>>,
            <<16, 32>>, <<64, 64>>, <<32, 66>>, <<-32, 64>>}

DibFiles ==
    {[IcoFile(<<<<32, 32, bc>>>>) EXCEPT !.dibw = wh[1], !.dibh = wh[2]] :
        bc \in Depths, wh \in DibDims}

SeedFiles == {[IcoFile(One32) EXCEPT !.seed = s] : s \in {101, 255}}

TruncDirs ==
    {[k \in 1..n |-> <<32, 32, 32>>] : n \in 1..MaxEntries}
        \cup {<<<<32, 32, 8>>, <<16, 32, 32>>>>, <<<<32, 0, 32>>, <<32, 32, 4>>>>}

\* cuts inside the directory and inside the first region
CutPoints(n) ==
    {6 + 16 * k - j : k \in 1..n, j \in {0, 1, 4, 9, 15}}
        \cup {RegionOffset(n, 1) + j : j \in {0, 3, 11, 12, 39, 40, 4135, 4136, 4263}}

TruncFiles ==
    UNION {{[IcoFile(d) EXCEPT !.len = l] : l \in CutPoints(Len(d))} : d \in TruncDirs}

IcoFiles == DirFiles \cup HeaderFiles \cup DibFiles \cup SeedFiles \cup TruncFiles

\* the files convert_icons.main may find in its directory
MainFiles ==
    { IcoFile(One32),
      IcoFile(<<<<32, 32, 8>>>>),
      IcoFile(<<<<16, 16, 32>>>>),
      [IcoFile(One32) EXCEPT !.reserved = 1],
      [IcoFile(One32) EXCEPT !.type = 2],
      [IcoFile(One32) EXCEPT !.reserved = 1, !.len = 4] }

\* lines 123-128: the next icon is opened
ForIcon ==
    /\ pc = "for_icon"
    /\ icon_idx <= Len(icons)
    /\ \E f \in MainFiles : file' = f
    /\ pos' = 0
    /\ stdout' = Append(stdout, <<"Converting", icons[icon_idx]>>)
    /\ pc' = "parse_ico"
    /\ UNCHANGED <<prog, exc, icon_idx, count, i, best_entry, image_data,
                   bit_count, pixels, rust_code, output_file, bmpVars>>

\* lines 130-131
Generate ==
    /\ pc = "generate"
    /\ rust_code' = Append(rust_code, generate_rust_code(icons[icon_idx], pixels))
    /\ icon_idx' = icon_idx + 1
    /\ pc' = "for_icon"
    /\ UNCHANGED <<prog, file, pos, exc, stdout, count, i, best_entry,
                   image_data, bit_count, pixels, output_file, bmpVars>>

\* lines 132-134
Except ==
    /\ pc = "raise"
    /\ stdout' = Append(stdout, <<"Error processing", icons[icon_idx], exc>>)
    /\ exc' = ""
    /\ icon_idx' = icon_idx + 1
    /\ pc' = "for_icon"
    /\ UNCHANGED <<prog, file, pos, count, i, best_entry, image_data,
                   bit_count, pixels, rust_code, output_file, bmpVars>>

\* lines 136-141
WriteOutput ==
    /\ pc = "for_icon"
    /\ icon_idx > Len(icons)
    /\ output_file' = rust_code
    /\ stdout' = Append(stdout, <<"Generated">>)
    /\ pc' = "done"
    /\ UNCHANGED <<prog, file, pos, exc, icon_idx, count, i, best_entry,
                   image_data, bit_count, pixels, rust_code, bmpVars>>

BmpIdle ==
    /\ pixel_offset = 0
    /\ dib_size = 0
    /\ width = 0
    /\ height = 0
    /\ palette = <<>>
    /\ row_size = 0
    /\ y = 0

\* convert_icons.main at line 123, before the first icon
InitMain ==
    /\ prog = "convert_icons"
    /\ pc = "for_icon"
    /\ file = NoFile
    /\ pos = 0
    /\ exc = ""
    /\ stdout = <<>>
    /\ icon_idx = 1
    /\ count = 0
    /\ i = 0
    /\ best_entry = <<>>
    /\ image_data = <<>>
    /\ bit_count = 0
    /\ pixels = <<>>
    /\ rust_code = <<RustHeader>>
    /\ output_file = <<>>
    /\ BmpIdle

\* convert_icons.main at line 128, entering parse_ico for the first icon
InitIco ==
    /\ prog = "convert_icons"
    /\ pc = "parse_ico"
    /\ file \in IcoFiles
    /\ pos = 0
    /\ exc = ""
    /\ stdout = <<<<"Converting", icons[1]>>>>
    /\ icon_idx = 1
    /\ count = 0
    /\ i = 0
    /\ best_entry = <<>>
    /\ image_data = <<>>
    /\ bit_count = 0
    /\ pixels = <<>>
    /\ rust_code = <<RustHeader>>
    /\ output_file = <<>>
    /\ BmpIdle

(***************************************************************************)
(* convert_start_bmp.read_bmp_4bit                                         *)
(***************************************************************************)
NotABmp == "ValueError: Not a BMP file"
Not4Bit == "ValueError: Expected 4-bit BMP"

\* line 25 as bit_count > 4
DepthRejected_above(bc) == bc > 4

\* line 25
DepthRejected(bc) == bc # 4

\* line 36 with >= 200 for > 200
IsColorKey_inclusive(r, g, b) == r >= 200 /\ b >= 200 /\ g < 50

\* line 36: magenta is the colour key
IsColorKey(r, g, b) == r > 200 /\ b > 200 /\ g < 50

\* lines 34-39: the palette entry made from the stored bytes <<b, g, r, reserved>>
PaletteEntry(e) ==
    IF IsColorKey(e[3], e[2], e[1])
    THEN <<e[3], e[2], e[1], 0>>
    ELSE <<e[3], e[2], e[1], 255>>

\* line 45 without the alignment to 4 bytes
RowSize_unpadded(w) == (w * 4 + 7) \div 8

\* line 45
RowSize(w) == ((w * 4 + 31) \div 32) * 4

\* lines 52-58: the palette index of pixel x of a row
PaletteIndex(row_data, x) ==
    LET byte_index == x \div 2
    IN  IF x % 2 = 0
        THEN (row_data[byte_index + 1] \div 16) % 16
        ELSE row_data[byte_index + 1] % 16

\* lines 12-16: the file header
ReadFileHeader ==
    /\ pc = "read_bmp_4bit"
    /\ \E header \in {read(file, pos, 14)} :
           /\ pos' = pos + Len(header)
           /\ IF SubSeq(header, 1, Min(2, Len(header))) # <<66, 77>>
              THEN Raise(NotABmp) /\ UNCHANGED pixel_offset
              ELSE IF Len(header) < 14
              THEN Raise(StructError) /\ UNCHANGED pixel_offset
              ELSE /\ pixel_offset' = unpack_unsigned(SubSeq(header, 11, 14))
                   /\ pc' = "read_dib"
                   /\ UNCHANGED exc
    /\ UNCHANGED <<prog, file, stdout, icoVars, bit_count, pixels, output_file,
                   dib_size, width, height, palette, row_size, y>>

\* lines 19-26: the DIB header
ReadDib ==
    /\ pc = "read_dib"
    /\ LET r == ReadFields(file, pos, <<4, 4, 4>>)
           planes == read(file, r.pos, 2)
           bc == read(file, r.pos + Len(planes), 2)
       IN  IF ~r.ok
           THEN /\ pos' = r.pos
                /\ Raise(StructError)
                /\ UNCHANGED <<dib_size, width, height, bit_count>>
           ELSE /\ dib_size' = unpack_unsigned(r.vals[1])
                /\ width' = unpack_signed(r.vals[2])
                /\ height' = unpack_signed(r.vals[3])
                /\ pos' = r.pos + Len(planes) + Len(bc)
                /\ IF Len(bc) # 2
                   THEN Raise(StructError) /\ UNCHANGED bit_count
                   ELSE /\ bit_count' = unpack_unsigned(bc)
                        /\ IF DepthRejected(unpack_unsigned(bc))
                           THEN Raise(Not4Bit)
                           ELSE pc' = "read_palette" /\ UNCHANGED exc
    /\ UNCHANGED <<prog, file, stdout, icoVars, pixels, output_file,
                   pixel_offset, palette, row_size, y>>

\* lines 29-48: the palette, then the seek to the pixel data
ReadPalette ==
    /\ pc = "read_palette"
    /\ \E r \in {ReadFields(file, 14 + dib_size, [k \in 1..16 |-> 4])} :
           IF ~r.ok
           THEN /\ pos' = r.pos
                /\ palette' = [k \in 1..Len(r.vals) |-> PaletteEntry(r.vals[k])]
                /\ Raise(StructError)
                /\ UNCHANGED <<row_size, pixels, y>>
           ELSE /\ palette' = [k \in 1..16 |-> PaletteEntry(r.vals[k])]
                /\ pos' = pixel_offset
                /\ row_size' = RowSize(width)
                /\ pixels' = <<>>
                /\ y' = height - 1
                /\ pc' = "for_row"
                /\ UNCHANGED exc
    /\ UNCHANGED <<prog, file, stdout, icoVars, bit_count, output_file,
                   pixel_offset, dib_size, width, height>>

\* lines 49-61: one iteration of the row loop (range(height - 1, -1, -1))
ReadRow ==
    /\ pc = "for_row"
    /\ y >= 0
    /\ LET row_data == read(file, pos, row_size)
           \* the pixels of the row that can be indexed: row_data[x // 2] exists
           done == Max(0, Min(width, 2 * Len(row_data)))
           row == [k \in 1..(done * 4) |->
                     palette[PaletteIndex(row_data, (k - 1) \div 4) + 1][((k - 1) % 4) + 1]]
       IN  /\ pos' = pos + Len(row_data)
           /\ pixels' = pixels \o row
           /\ IF done < width
              THEN Raise(IndexError) /\ UNCHANGED y
              ELSE y' = y - 1 /\ UNCHANGED <<pc, exc>>
    /\ UNCHANGED <<prog, file, stdout, icoVars, bit_count, output_file,
                   pixel_offset, dib_size, width, height, palette, row_size>>

\* line 63, then convert_start_bmp.main lines 87-96
WriteLogo ==
    /\ pc = "for_row"
    /\ y < 0
    /\ rust_code' = <<width, height, Len(pixels), pixels>>
    /\ output_file' = <<width, height, Len(pixels), pixels>>
    /\ stdout' = stdout \o <<<<"Generated">>, <<"Size", width, height, Len(pixels)>>>>
    /\ pc' = "done"
    /\ UNCHANGED <<prog, file, pos, exc, icon_idx, count, i, best_entry,
                   image_data, bit_count, pixels, bmpVars>>

(***************************************************************************)
(* The .bmp files drawn.                                                   *)
(***************************************************************************)
BmpFile(w, h) ==
    [kind |-> "bmp", magic |-> <<66, 77>>, pixel_offset |-> 118, dib_size |-> 40,
     width |-> w, height |-> h, bit_count |-> 4, pal |-> 11, seed |-> 0,
     len |-> 118 + Abs(h) * DiskStride(w)]

GeometryFiles == {BmpFile(w, h) : w \in (-1)..MaxWidth, h \in (-2)..MaxHeight}

PaletteFiles == {[BmpFile(3, 2) EXCEPT !.pal = p] : p \in 0..13}

DepthFiles == {[BmpFile(3, 2) EXCEPT !.bit_count = bc] : bc \in Depths \ {4}}

MagicFiles == {[BmpFile(3, 2) EXCEPT !.magic = m] : m \in {<<66, 65>>, <<77, 66>>, <<0, 0>>}}

SeedBmpFiles == {[BmpFile(w, 2) EXCEPT !.seed = s] : w \in {5, 8}, s \in {63, 77, 240}}

\* a longer DIB header, a gap before the pixel data
LayoutFiles ==
    {[BmpFile(3, 2) EXCEPT !.dib_size = d, !.pixel_offset = 14 + d + 64 + g,
                           !.len = 14 + d + 64 + g + 2 * DiskStride(3)] :
        d \in {40, 56}, g \in {0, 2}}

TruncBmpFiles ==
    {[BmpFile(3, 2) EXCEPT !.len = l] :
        l \in {0, 1, 2, 13, 14, 17, 18, 25, 26, 27, 28, 29, 30, 54, 57, 117, 118,
               119, 120, 122, 123, 125}}

BmpFiles ==
    GeometryFiles \cup PaletteFiles \cup DepthFiles \cup MagicFiles
        \cup SeedBmpFiles \cup LayoutFiles \cup TruncBmpFiles

\* convert_start_bmp.main at line 87, entering read_bmp_4bit
InitBmp ==
    /\ prog = "convert_start_bmp"
    /\ pc = "read_bmp_4bit"
    /\ file \in BmpFiles
    /\ pos = 0
    /\ exc = ""
    /\ stdout = <<<<"Converting", "start16.bmp">>>>
    /\ icon_idx = 0
    /\ count = 0
    /\ i = 0
    /\ best_entry = <<>>
    /\ image_data = <<>>
    /\ bit_count = 0
    /\ pixels = <<>>
    /\ rust_code = <<>>
    /\ output_file = <<>>
    /\ BmpIdle

Init == InitIco \/ InitBmp

Next ==
    \/ ReadHeader
    \/ ReadEntry
    \/ ReadImage
    \/ Decode
    \/ ReadFileHeader
    \/ ReadDib
    \/ ReadPalette
    \/ ReadRow
    \/ WriteLogo

Spec == Init /\ [][Next]_vars

NextMain ==
    \/ ForIcon
    \/ ReadHeader
    \/ ReadEntry
    \/ ReadImage
    \/ Decode
    \/ Generate
    \/ Except
    \/ WriteOutput

SpecMain == InitMain /\ [][NextMain]_vars

(***************************************************************************)
(* Properties.  They are stated over the file that was opened (its         *)
(* generating parameters and FileByte), not over the decoder's operators.  *)
(***************************************************************************)
IsIco == prog = "convert_icons" /\ file.kind = "ico"
IsBmp == prog = "convert_start_bmp"

\* a directory entry's declared dimension: the stored byte, 0 standing for 256
DeclaredDim(v) == IF v = 0 THEN 256 ELSE v

\* the indices of the entries of dir, among the first n, declared 32x32
Matching(dir, n) ==
    {e \in 1..n : DeclaredDim(dir[e][1]) = 32 /\ DeclaredDim(dir[e][2]) = 32}

\* the entry the selection rule names: of greatest bitCount among the
\* matching ones, and of lowest index among those
Selected(dir, n) ==
    CHOOSE e \in Matching(dir, n) :
        \A o \in Matching(dir, n) :
            \/ dir[o][3] < dir[e][3]
            \/ dir[o][3] = dir[e][3] /\ e <= o

\* what parse_ico keeps of entry e
Kept(dir, e) == <<RegionOffset(Len(dir), e), dir[e][3], RegionLen>>

\* the header is an icon container's and the whole directory is in the file
DirectoryReadable ==
    /\ file.reserved = 0
    /\ file.type = 1
    /\ FileLen(file) >= 6 + 16 * Len(file.dir)

\* C1: parse_ico returns the 32x32 descriptor of greatest bitCount, the
\* lowest-indexed one on a tie, and raises "No 32x32 image found" exactly
\* when no descriptor is 32x32 (width/height 0 read as 256).  The same holds
\* of best_entry after every iteration, for the entries read so far.
C1_Selection ==
    (IsIco /\ DirectoryReadable /\ pc # "parse_ico") =>
        LET dir == file.dir
            n == IF pc = "for_entry" THEN i ELSE Len(dir)
        IN  /\ pc = "for_entry" => i <= Len(dir) /\ exc = ""
            /\ IF Matching(dir, n) = {}
               THEN /\ best_entry = <<>>
                    /\ pc # "for_entry" => pc = "raise" /\ exc = No32x32
               ELSE /\ best_entry = Kept(dir, Selected(dir, n))
                    /\ exc # No32x32
                    /\ pc \in {"bmp_to_rgba", "generate"} =>
                          bit_count = dir[Selected(dir, n)][3]

\* parse_ico has returned an entry that tied on the greatest bitCount with a
\* later 32x32 entry, past an entry that is not 32x32 and has more bits
C1_Witness ==
    /\ IsIco
    /\ pc = "bmp_to_rgba"
    /\ \E a, b, c \in 1..Len(file.dir) :
          /\ a < b
          /\ {a, b} \subseteq Matching(file.dir, Len(file.dir))
          /\ c \notin Matching(file.dir, Len(file.dir))
          /\ file.dir[a][3] = file.dir[b][3]
          /\ file.dir[c][3] > file.dir[a][3]
          /\ best_entry = Kept(file.dir, a)

\* C4: the 32-bit decoder's output pixel (row r, column x) is (red, green,
\* blue, alpha) of the source pixel stored (blue, green, red, alpha) in
\* stored row 31 - r, column x, the pixel data starting at byte 40.
C4_Rgba32 ==
    (IsIco /\ pc = "generate" /\ bit_count = 32) =>
        /\ Len(pixels) = 32 * 32 * 4
        /\ \A r \in 0..31, x \in 0..31 :
              LET src == 40 + ((31 - r) * 32 + x) * 4
                  out == (r * 32 + x) * 4
              IN  /\ pixels[out + 1] = image_data[src + 3]
                  /\ pixels[out + 2] = image_data[src + 2]
                  /\ pixels[out + 3] = image_data[src + 1]
                  /\ pixels[out + 4] = image_data[src + 4]

\* a 32-bit image has been decoded whose first and last rows differ and
\* whose blue and red differ, and output row 0 is the last stored row
C4_Witness ==
    /\ IsIco
    /\ pc = "generate"
    /\ bit_count = 32
    /\ SubSeq(pixels, 1, 128) # SubSeq(pixels, 31 * 128 + 1, 32 * 128)
    /\ pixels[1] # pixels[3]
    /\ pixels[1] = image_data[40 + 31 * 128 + 3]

\* the generated items naming icon nm
Items(nm) == {j \in 1..Len(rust_code) : rust_code[j][1] = nm}

\* the "Error processing" lines printed for icon nm
Errors(nm) ==
    {j \in 1..Len(stdout) : Len(stdout[j]) = 3 /\ stdout[j][1] = "Error processing"
                              /\ stdout[j][2] = nm}

\* the file holds a whole 6-byte header that is not an icon container's
BadHeader(f) == f.kind = "ico" /\ FileLen(f) >= 6 /\ (f.reserved # 0 \/ f.type # 1)

\* C5: a container whose (complete) header has reserved # 0 or type # 1
\* fails with "Not a valid ICO file" with only the 6 header bytes read, no
\* item for that icon is ever generated, and main goes on: every icon
\* handled so far has either its one generated item or its one error line,
\* and what is written at the end is what was generated.
C5_InvalidContainer ==
    /\ (pc = "raise" /\ BadHeader(file)) =>
          /\ exc = NotAnIco
          /\ pos = 6
          /\ Items(icons[icon_idx]) = {}
    /\ (pc \in {"for_icon", "done"} /\ icon_idx > 1 /\ BadHeader(file)) =>
          /\ Items(icons[icon_idx - 1]) = {}
          /\ \E j \in Errors(icons[icon_idx - 1]) : stdout[j][3] = NotAnIco
    /\ ~(BadHeader(file) /\ pc \in {"for_entry", "bmp_to_rgba", "generate"})
    /\ \A k \in 1..Len(icons) :
          IF k < icon_idx
          THEN Cardinality(Items(icons[k])) + Cardinality(Errors(icons[k])) = 1
          ELSE Items(icons[k]) = {} /\ Errors(icons[k]) = {}
    /\ pc = "done" => icon_idx = Len(icons) + 1 /\ output_file = rust_code

\* main has finished; the second icon was rejected as not an icon container
\* and the first and third were generated
C5_Witness ==
    /\ pc = "done"
    /\ \E j \in Errors(icons[2]) : stdout[j][3] = NotAnIco
    /\ Items(icons[2]) = {}
    /\ Items(icons[1]) # {}
    /\ Items(icons[3]) # {}
    /\ Len(output_file) = 3

\* the header is an icon container's, and the directory it declares does not
\* fit in the file
DirectoryTruncated ==
    /\ file.reserved = 0
    /\ file.type = 1
    /\ FileLen(file) >= 6
    /\ FileLen(file) < 6 + 16 * Len(file.dir)

\* C6: when the directory declared by count does not fit in the file,
\* parse_ico raises struct.error at the first entry that is cut, with the
\* cursor at the end of the file; it never returns, whatever was read before.
C6_TruncatedDirectory ==
    (IsIco /\ DirectoryTruncated /\ pc # "parse_ico") =>
        /\ pc \in {"for_entry", "raise"}
        /\ count = Len(file.dir)
        /\ i <= (FileLen(file) - 6) \div 16
        /\ pos <= FileLen(file)
        /\ image_data = <<>>
        /\ pixels = <<>>
        /\ pc = "raise" =>
              /\ exc = StructError
              /\ i = (FileLen(file) - 6) \div 16
              /\ pos = FileLen(file)

\* the directory was cut after a 32x32 entry had been read in full
C6_Witness ==
    /\ IsIco
    /\ DirectoryTruncated
    /\ pc = "raise"
    /\ exc = StructError
    /\ best_entry # <<>>
    /\ i >= 1

\* C7 as claimed: an image is returned only when the whole region the
\* selected descriptor declares (byteSize bytes at byteOffset) is in the file.
C7_RegionComplete ==
    (IsIco /\ pc = "generate") =>
        /\ best_entry[1] + best_entry[3] <= FileLen(file)
        /\ Len(image_data) = best_entry[3]

\* the sub-header geometry bmp_to_rgba accepts, as the file declares it
GeometryAccepted == file.dibw = 32 /\ Abs(file.dibh) \in {64, 65}

AllSentinel(px) ==
    /\ Len(px) = 32 * 32 * 4
    /\ \A p \in 0..(32 * 32 - 1) :
          <<px[4 * p + 1], px[4 * p + 2], px[4 * p + 3], px[4 * p + 4]>>
              = <<128, 128, 192, 255>>

\* C8: on the icon path a bit depth other than 32 with accepted geometry
\* gives a warning and the 32x32 image of the sentinel pixel, not a failure;
\* on the bitmap path a bit count other than 4 never gets past the DIB
\* header: it raises (the 4-bit error once the header is read) and nothing
\* is returned or written.
C8_UnsupportedDepth ==
    /\ (IsIco /\ pc \in {"generate", "raise"} /\ Len(image_data) >= 12
              /\ GeometryAccepted /\ bit_count # 32) =>
          /\ pc = "generate"
          /\ exc = ""
          /\ AllSentinel(pixels)
          /\ stdout[Len(stdout)] = <<"Warning", bit_count>>
    /\ (IsBmp /\ file.bit_count # 4) =>
          /\ pc \in {"read_bmp_4bit", "read_dib", "raise"}
          /\ pixels = <<>>
          /\ output_file = <<>>
          /\ (pc = "raise" /\ file.magic = <<66, 77>> /\ FileLen(file) >= 30) =>
                exc = Not4Bit

\* an 8-bit icon has been turned into the placeholder, with its warning
C8_Witness ==
    /\ IsIco
    /\ pc = "generate"
    /\ bit_count = 8
    /\ AllSentinel(pixels)
    /\ stdout[Len(stdout)] = <<"Warning", 8>>

\* C2 as claimed: whatever is returned has width * height * 4 bytes: the
\* icon decoder's list 32 * 32 * 4, and read_bmp_4bit's list width * height
\* * 4 for the width and height it returns with it, negative height included.
C2_PixelLength ==
    /\ (IsIco /\ pc = "generate") => Len(pixels) = 32 * 32 * 4
    /\ (IsBmp /\ pc = "done") =>
          /\ Len(pixels) = width * height * 4
          /\ output_file = <<width, height, width * height * 4, pixels>>

\* the stored palette entry k (0..15) of the open bitmap: <<blue, green, red>>
StoredEntry(k) ==
    [c \in 1..3 |-> FileByte(file, 14 + file.dib_size + 4 * k + c - 1)]

\* the alpha the colour-key rule gives (red, green, blue)
KeyAlpha(r, g, b) == IF r > 200 /\ b > 200 /\ g < 50 THEN 0 ELSE 255

\* the palette has been read in full
PaletteRead == IsBmp /\ pc \in {"for_row", "done"}

\* C9: each of the 16 entries stored (blue, green, red, reserved) is decoded
\* to (red, green, blue, alpha) with alpha 0 exactly when red > 200 and
\* blue > 200 and green < 50, and 255 otherwise.
C9_ColorKey ==
    PaletteRead =>
        /\ Len(palette) = 16
        /\ \A k \in 0..15 :
              LET e == StoredEntry(k)
              IN  palette[k + 1] = <<e[3], e[2], e[1], KeyAlpha(e[3], e[2], e[1])>>
        /\ \A k \in 1..16 :
              /\ palette[k][4] \in {0, 255}
              /\ <<palette[k][1], palette[k][2], palette[k][3]>> = <<255, 0, 255>>
                    => palette[k][4] = 0
              /\ <<palette[k][1], palette[k][2], palette[k][3]>> = <<255, 0, 0>>
                    => palette[k][4] = 255

\* a palette holding magenta (transparent), red (opaque) and colours on
\* either side of the blue threshold has been read
C9_Witness ==
    /\ PaletteRead
    /\ \E k \in 1..16 : palette[k] = <<255, 0, 255, 0>>
    /\ \E k \in 1..16 : palette[k] = <<255, 0, 0, 255>>
    /\ \E k \in 1..16 : palette[k] = <<255, 0, 200, 255>>
    /\ \E k \in 1..16 : palette[k] = <<255, 0, 201, 0>>
    /\ \E k \in 1..16 : palette[k] = <<255, 49, 201, 0>>

\* ceil(a / b) for b > 0
Ceil(a, b) == IF a % b = 0 THEN a \div b ELSE (a \div b) + 1

\* bytes a stored row of w 4-bit pixels occupies
Stride(w) == Ceil(w * 4, 32) * 4

\* the palette index stored for pixel x of the stored row s of the open bitmap
StoredIndex(s, x) ==
    LET b == FileByte(file, file.pixel_offset + s * Stride(file.width) + (x \div 2))
    IN  IF x % 2 = 0 THEN b \div 16 ELSE b % 16

\* pixel x of output row r
OutPixel(r, x) ==
    [c \in 1..4 |-> pixels[(r * width + x) * 4 + c]]

\* the rows decoded so far
RowsDone == IF pc = "done" THEN height ELSE height - 1 - y

\* C10: the n-th row read is the stride-aligned n-th stored row, and its
\* pixel x is the palette entry of the high (x even) or low (x odd) nibble of
\* the row's byte x div 2; the bytes after the row's ceil(width / 2) data
\* bytes are skipped (the cursor moves on by the stride, or to the end of a
\* file that ends inside the padding).
C10_Nibbles ==
    (PaletteRead /\ width > 0 /\ height > 0) =>
        /\ row_size = Stride(width)
        /\ Len(pixels) = RowsDone * width * 4
        /\ pos = Min(FileLen(file), pixel_offset + RowsDone * Stride(width))
        /\ \A n \in 0..(RowsDone - 1), x \in 0..(width - 1) :
              OutPixel(n, x) = palette[StoredIndex(n, x) + 1]

\* a bitmap of odd width whose rows carry padding has been decoded in full:
\* at least two rows, and a byte whose two nibbles differ
C10_Witness ==
    /\ IsBmp
    /\ pc = "done"
    /\ width = 5
    /\ height >= 2
    /\ Stride(width) > Ceil(width, 2)
    /\ StoredIndex(1, 0) # StoredIndex(1, 1)
    /\ OutPixel(1, 0) # OutPixel(1, 1)

\* C3 as claimed: with positive height h, output row r is the stored row
\* h - 1 - r (the one at pixel_offset + (h - 1 - r) * stride).
C3_TopDown ==
    (IsBmp /\ pc = "done" /\ width > 0 /\ height > 0) =>
        \A r \in 0..(height - 1), x \in 0..(width - 1) :
            OutPixel(r, x) = palette[StoredIndex(height - 1 - r, x) + 1]

====
